---- MODULE Spec2Model ----
(***************************************************************************)
(* github-readme-cards: the three card pipelines (top languages, streak,   *)
(* stats) as request state machines.  A request runs from its handler's    *)
(* entry to the Response it returns; every `await` on a GitHub call is a   *)
(* point where the request is suspended, so one action is the code between *)
(* two awaits.  The GitHub API is the environment: each awaited call       *)
(* either resolves with a response drawn from a bounded pool or rejects    *)
(* (throws).                                                               *)
(***************************************************************************)
EXTENDS Integers, Sequences, FiniteSets, TLC

VARIABLES
  env,     \* process.env: [username, token : BOOLEAN] (is the variable set)
  gh,      \* the GitHub account the API serves (pages, calendar, pool of repositories)
  kind,    \* per request: which card handler runs
  pc,      \* per request: the await the handler is suspended at
  calls,   \* per request: number of network calls issued so far
  resp,    \* per request: the Response returned
  lang,    \* per request: locals of fetchTopLanguages
  streak,  \* per request: locals of fetchContributions / buildStreakSvg
  stats,   \* per request: locals of buildStatsSvg and its fetchers
  hist     \* per request: record of what the API was asked and what it served

vars == <<env, gh, kind, pc, calls, resp, lang, streak, stats, hist>>

Reqs == {"a", "b"}

\* ---------------------------------------------------------------- bounds
MaxPages == 3      \* pages of the repositories connection
MaxSize  == 1      \* language edge sizes of the small pool are 0..MaxSize
MaxCalls == 10     \* cap on the network calls of one request

\* ------------------------------------------------------------- utilities
Min(a, b) == IF a < b THEN a ELSE b

RECURSIVE SumSeq(_)
SumSeq(s) == IF s = <<>> THEN 0 ELSE s[1] + SumSeq(Tail(s))

RECURSIVE Flatten(_)
Flatten(ss) == IF ss = <<>> THEN <<>> ELSE ss[1] \o Flatten(Tail(ss))

\* ---------------------------------------------------------------- Responses
NoResponse == [status |-> "none", cache |-> FALSE, message |-> "", body |-> <<>>]

\* new Response(svg, {headers: {"Content-Type", "Cache-Control"}})
SvgResponse(body) ==
  [status |-> "svg", cache |-> TRUE, message |-> "", body |-> body]

\* the catch block: an error SVG, Content-Type header only
ErrorResponse(message) ==
  [status |-> "error", cache |-> FALSE, message |-> message, body |-> <<>>]

UpstreamError == "upstream request failed"

\* =========================================================================
\* The repositories connection (GraphQL, cursor pagination)
\* =========================================================================
\* Cursor 0 is `null` (no `after`); the cursor returned by page k is k.  A
\* request with cursor c is answered with page c + 1 of the connection.
PageInfo(npages, after) ==
  [hasNextPage |-> after + 1 < npages, endCursor |-> after + 1]

\* =========================================================================
\* Language aggregator
\* =========================================================================
Edge(n, s) == [name |-> n, size |-> s]

PrimaryNames == {"JS", "Python"}
Sizes == 0..MaxSize

\* repositories with up to two language edges, all sizes 0..MaxSize
SmallRepos ==
  {<<>>}
  \cup {<<Edge(n, s)>> : n \in PrimaryNames, s \in Sizes}
  \cup {<<Edge(n[1], s[1]), Edge(n[2], s[2])>> :
          n \in {m \in PrimaryNames \X PrimaryNames : m[1] # m[2]}, s \in Sizes \X Sizes}

SingleEdgeRepos == {<<Edge(n, s)>> : n \in PrimaryNames, s \in Sizes}

SmallPages ==
  {<<>>} \cup {<<r>> : r \in SmallRepos}
         \cup {<<r1, r2>> : r1 \in SingleEdgeRepos, r2 \in SingleEdgeRepos}

\* the two repositories of the documented example
ScenarioRepo1 == <<Edge("JS", 800)>>
ScenarioRepo2 == <<Edge("JS", 200), Edge("Python", 400)>>
ScenarioPages == {<<ScenarioRepo1>>, <<ScenarioRepo2>>, <<ScenarioRepo1, ScenarioRepo2>>}

\* repositories that bring the number of distinct languages above six
WideRepo == <<Edge("Go", 3), Edge("C", 1), Edge("Rust", 2), Edge("Java", 2), Edge("Ruby", 1)>>
WidePages ==
  {<<WideRepo>>, <<>>} \cup {<<<<Edge(n, s)>>>> : n \in PrimaryNames \cup {"C"}, s \in {0, 2}}

LangPools == {SmallPages, ScenarioPages, WidePages}

Names == PrimaryNames \cup {"Go", "C", "Rust", "Java", "Ruby"}

HasKey(totals, name) == \E i \in 1..Len(totals) : totals[i].name = name

\* totals[name].size = size : overwrites instead of accumulating
AddEdgeOverwrite(totals, edge) ==
  LET t1 == IF HasKey(totals, edge.name) THEN totals
            ELSE Append(totals, [name |-> edge.name, size |-> 0])
  IN  [i \in 1..Len(t1) |->
         IF t1[i].name = edge.name THEN [t1[i] EXCEPT !.size = edge.size] ELSE t1[i]]

\* if (!totals[name]) totals[name] = {size: 0, ...}; totals[name].size += size
\* `totals` keeps the insertion order of its keys, as Object.entries reports it.
AddEdge(totals, edge) ==
  LET t1 == IF HasKey(totals, edge.name) THEN totals
            ELSE Append(totals, [name |-> edge.name, size |-> 0])
  IN  [i \in 1..Len(t1) |->
         IF t1[i].name = edge.name THEN [t1[i] EXCEPT !.size = @ + edge.size] ELSE t1[i]]

RECURSIVE AccumulateEdges(_, _)
AccumulateEdges(totals, edges) ==
  IF edges = <<>> THEN totals
  ELSE AccumulateEdges(AddEdge(totals, edges[1]), Tail(edges))

\* for (const repo of repos) for (const edge of repo.languages?.edges ?? [])
AccumulatePage(totals, repos) == AccumulateEdges(totals, Flatten(repos))

\* Object.values(totals).reduce((a, v) => a + v.size, 0)
TotalSize(totals) == SumSeq([i \in 1..Len(totals) |-> totals[i].size])

\* A percent is the exact quotient num / den in lowest terms; den = 0 stands
\* for NaN (0 / 0).
RECURSIVE GCD(_, _)
GCD(a, b) == IF b = 0 THEN a ELSE GCD(b, a % b)

Ratio(n, d) == [num |-> n \div GCD(n, d), den |-> d \div GCD(n, d)]

NaN == [num |-> 0, den |-> 0]
IsNaN(p) == p.den = 0

\* (size / totalSize) * 100
Percent(size, totalSize) ==
  IF totalSize = 0 THEN NaN ELSE Ratio(size * 100, totalSize)

\* IEEE comparisons: every comparison with NaN is false
PercentEq(p, q)   == ~IsNaN(p) /\ ~IsNaN(q) /\ p.num * q.den = q.num * p.den
PercentLess(p, q) == ~IsNaN(p) /\ ~IsNaN(q) /\ p.num * q.den < q.num * p.den

\* (a, b) => b.percent - a.percent ; a NaN difference counts as 0 in sort
ComparePercent(a, b) ==
  IF IsNaN(a.percent) \/ IsNaN(b.percent) THEN 0
  ELSE b.percent.num * a.percent.den - a.percent.num * b.percent.den

RECURSIVE InsertSorted(_, _)
InsertSorted(s, x) ==
  IF s = <<>> THEN <<x>>
  ELSE IF ComparePercent(s[Len(s)], x) > 0
       THEN Append(InsertSorted(SubSeq(s, 1, Len(s) - 1), x), s[Len(s)])
       ELSE Append(s, x)

RECURSIVE StableSort(_)
StableSort(s) ==
  IF s = <<>> THEN <<>>
  ELSE InsertSorted(StableSort(SubSeq(s, 1, Len(s) - 1)), s[Len(s)])

\* no sort at all
SortByPercentNone(shares) == shares

\* .sort((a, b) => b.percent - a.percent) ; Array.prototype.sort is stable
SortByPercent(shares) == StableSort(shares)

TopN == 6

\* .slice(0, 6)
SliceTop(shares) == SubSeq(shares, 1, Min(TopN, Len(shares)))

\* Object.entries(totals).map(...) of fetchTopLanguages
Shares(totals) ==
  [i \in 1..Len(totals) |->
     [name |-> totals[i].name, percent |-> Percent(totals[i].size, TotalSize(totals))]]

\* the value fetchTopLanguages returns once the loop is over
TopLanguages(totals) == SliceTop(SortByPercent(Shares(totals)))

\* =========================================================================
\* Contribution aggregator
\* =========================================================================
\* Time is counted in ticks of 1000 ms (the amount the loop adds to `end`),
\* from `from`, which is midnight UTC of January 1st: tick 0 opens day 0.
DayTicks   == 2     \* ticks per calendar day (24 * 60 * 60 in the code's terms)
WindowDays == 2     \* days per sub-window (365 in the code)
MaxTo      == 11    \* latest `to` (now), in ticks after `from`
MaxLen     == 7     \* longest day sequence given to the streak computation

Step == 1           \* end.getTime() + 1000
Window == WindowDays * DayTicks

DayOf(t) == t \div DayTicks

CountValues == {0, 1}          \* contributionCount of a calendar day of the account
ScanCounts  == {0, 1, 2, 3}    \* contributionCount of a day given to the streak computation

\* contributionCalendar of contributionsCollection(from: start, to: end): every
\* calendar day the window touches, oldest first; cal[d + 1] is day d's count
CalendarDays(cal, start, end) ==
  [i \in 1..(DayOf(end) - DayOf(start) + 1) |->
     [date |-> DayOf(start) + i - 1, count |-> cal[DayOf(start) + i]]]

\* contributionCalendar.totalContributions of the same window
CalendarTotal(cal, start, end) ==
  SumSeq([i \in 1..Len(CalendarDays(cal, start, end)) |-> CalendarDays(cal, start, end)[i].count])

\* start = new Date(end.getTime() + 1000)
NextStart(end) == end + Step

\* end = new Date(Math.min(to.getTime(), start.getTime() + 365 * 24 * 60 * 60 * 1000))
WindowEnd(start, to) == Min(to, start + Window)

\* days.sort((a, b) => new Date(a.date).getTime() - new Date(b.date).getTime())
RECURSIVE InsertByDate(_, _)
InsertByDate(s, x) ==
  IF s = <<>> THEN <<x>>
  ELSE IF s[Len(s)].date - x.date > 0
       THEN Append(InsertByDate(SubSeq(s, 1, Len(s) - 1), x), s[Len(s)])
       ELSE Append(s, x)

RECURSIVE SortByDate(_)
SortByDate(s) ==
  IF s = <<>> THEN <<>>
  ELSE InsertByDate(SortByDate(SubSeq(s, 1, Len(s) - 1)), s[Len(s)])

\* the running count is not reset on a day without contributions
RECURSIVE LongestScanNoReset(_, _, _, _)
LongestScanNoReset(days, i, temp, longest) ==
  IF i >= Len(days) THEN longest
  ELSE IF days[i + 1].count > 0
       THEN LongestScanNoReset(days, i + 1, temp + 1, IF temp + 1 > longest THEN temp + 1 ELSE longest)
       ELSE LongestScanNoReset(days, i + 1, temp, longest)

\* computeStreaks, first loop; i is the loop's index (days[i] is days[i + 1] here)
RECURSIVE LongestScan(_, _, _, _)
LongestScan(days, i, temp, longest) ==
  IF i >= Len(days) THEN longest
  ELSE IF days[i + 1].count > 0
       THEN LongestScan(days, i + 1, temp + 1, IF temp + 1 > longest THEN temp + 1 ELSE longest)
       ELSE LongestScan(days, i + 1, 0, longest)

\* a day without contributions is skipped instead of ending the scan
RECURSIVE CurrentScanNoBreak(_, _, _)
CurrentScanNoBreak(days, i, current) ==
  IF i < 0 THEN current
  ELSE IF days[i + 1].count > 0 THEN CurrentScanNoBreak(days, i - 1, current + 1)
       ELSE CurrentScanNoBreak(days, i - 1, current)

\* computeStreaks, second loop: backwards from the last day, break at the first 0
RECURSIVE CurrentScan(_, _, _)
CurrentScan(days, i, current) ==
  IF i < 0 THEN current
  ELSE IF days[i + 1].count > 0 THEN CurrentScan(days, i - 1, current + 1)
       ELSE current

computeStreaks(days) ==
  [currentStreak |-> CurrentScan(days, Len(days) - 1, 0),
   longestStreak |-> LongestScan(days, 0, 0, 0)]

\* let bestStart = -1, bestEnd = -1; { let tempStart = 0, tempLen = 0; ... }
InitBest == [bestStart |-> -1, bestEnd |-> -1, tempStart |-> 0, tempLen |-> 0]

\* the scan for the longest streak's indices, one loop iteration per call
RECURSIVE BestScan(_, _, _)
BestScan(days, i, b) ==
  IF i >= Len(days) THEN b
  ELSE IF days[i + 1].count > 0
       THEN LET tempStart == IF b.tempLen = 0 THEN i ELSE b.tempStart
                tempLen   == b.tempLen + 1
            IN  IF tempLen > b.bestEnd - b.bestStart + 1
                THEN BestScan(days, i + 1,
                       [bestStart |-> tempStart, bestEnd |-> i,
                        tempStart |-> tempStart, tempLen |-> tempLen])
                ELSE BestScan(days, i + 1,
                       [b EXCEPT !.tempStart = tempStart, !.tempLen = tempLen])
       ELSE BestScan(days, i + 1, [b EXCEPT !.tempLen = 0])

NoRange == [present |-> FALSE, thrown |-> FALSE, start |-> -1, end |-> -1]

\* formatStreakRange: days[startIdx].date and days[endIdx].date; an index
\* outside the array reads `undefined.date`, a TypeError
formatStreakRange(days, startIdx, endIdx) ==
  IF startIdx \in 0..(Len(days) - 1) /\ endIdx \in 0..(Len(days) - 1)
  THEN [present |-> TRUE, thrown |-> FALSE,
        start |-> days[startIdx + 1].date, end |-> days[endIdx + 1].date]
  ELSE [present |-> FALSE, thrown |-> TRUE, start |-> -1, end |-> -1]

\* days.find((d) => d.contributionCount > 0): its date, -1 when there is none
FirstActive(days) ==
  IF \E i \in 1..Len(days) : days[i].count > 0
  THEN days[CHOOSE i \in 1..Len(days) :
              days[i].count > 0 /\ \A j \in 1..(i - 1) : days[j].count = 0].date
  ELSE -1

\* buildStreakSvg from the sort to the returned Response
StreakCard(contributions, totalContributions) ==
  LET days == SortByDate(contributions)
      s    == computeStreaks(days)
      b    == BestScan(days, 0, InitBest)
      longestRange == IF b.bestStart >= 0 /\ b.bestEnd >= 0
                      THEN formatStreakRange(days, b.bestStart, b.bestEnd) ELSE NoRange
      endIdx   == Len(days) - 1     \* days.findIndex((_d, i) => i === days.length - 1)
      startIdx == endIdx - s.currentStreak + 1
      currRange == IF s.currentStreak > 0
                   THEN formatStreakRange(days, startIdx, endIdx) ELSE NoRange
  IN  IF longestRange.thrown \/ currRange.thrown
      THEN ErrorResponse("TypeError")
      ELSE SvgResponse(
             [days |-> days,
              totalContributions |-> totalContributions,
              currentStreak |-> s.currentStreak,
              longestStreak |-> s.longestStreak,
              bestStart |-> b.bestStart, bestEnd |-> b.bestEnd,
              longestRange |-> longestRange,
              currStart |-> startIdx, currEnd |-> endIdx,
              currRange |-> currRange,
              firstActive |-> FirstActive(days)])

\* =========================================================================
\* Stats aggregator
\* =========================================================================
MaxList == 2        \* longest list a REST page of repositories or pull requests carries
MaxMult == 2        \* calculateRank is evaluated at 0..MaxMult times each median

Null == -1          \* a field the response omits

Node(s, f, a) == [stargazerCount |-> s, forkCount |-> f, active |-> a]

\* `active`: pushedAt is set and not older than one year
StatsNodes == {Node(s, f, a) : s \in {0, 1}, f \in {0, 1}, a \in BOOLEAN}
PairNodes  == {Node(1, 0, TRUE), Node(0, 1, FALSE)}

StatsNodeLists ==
  {<<>>} \cup {<<n>> : n \in StatsNodes} \cup {<<n, m>> : n \in PairNodes, m \in PairNodes}

\* a page of REPOS_PAGE_QUERY: the nodes and the account's global totals
RichStatsPages ==
  [nodes : StatsNodeLists, pullRequests : {Null, 1, 2}, issues : {Null, 1}]
PlainStatsPages ==
  [nodes : {<<Node(1, 1, TRUE)>>}, pullRequests : {2}, issues : {1}]

CommitCounts   == {0, 7}      \* total_count of GET /search/commits
FollowerCounts == {0, 4}      \* followers of GET /users/{username}

\* pulls.listReviews is called once per pull request, with no per_page and no
\* page: the response is the first page, of the API's page size, of the reviews
ReviewsPerPage == 2
ReviewTotals   == 0..(ReviewsPerPage + 1)   \* reviews a pull request has
ListedReviews(total) == Min(total, ReviewsPerPage)   \* reviews.length

InitRepoTotals ==
  [totalStars |-> 0, totalForks |-> 0, activeReposLastYear |-> 0,
   totalPRs |-> 0, totalIssues |-> 0, firstPageCaptured |-> FALSE]

\* the totals are taken from every page
CaptureEveryPage(t, page) ==
  [t EXCEPT !.totalPRs = IF page.pullRequests = Null THEN 0 ELSE page.pullRequests,
            !.totalIssues = IF page.issues = Null THEN 0 ELSE page.issues,
            !.firstPageCaptured = TRUE]

\* if (!firstPageCaptured) { totalPRs = ... ?? 0; totalIssues = ... ?? 0; ... }
CaptureFirstPage(t, page) ==
  IF t.firstPageCaptured THEN t
  ELSE [t EXCEPT !.totalPRs = IF page.pullRequests = Null THEN 0 ELSE page.pullRequests,
                 !.totalIssues = IF page.issues = Null THEN 0 ELSE page.issues,
                 !.firstPageCaptured = TRUE]

\* the body of `for (const node of repos)`
AddNode(t, node) ==
  [t EXCEPT !.totalStars = @ + node.stargazerCount,
            !.totalForks = @ + node.forkCount,
            !.activeReposLastYear = IF node.active THEN @ + 1 ELSE @]

RECURSIVE AddNodes(_, _)
AddNodes(t, nodes) ==
  IF nodes = <<>> THEN t ELSE AddNodes(AddNode(t, nodes[1]), Tail(nodes))

\* one iteration of fetchAllRepos' loop on a served page
AccumulateStatsPage(t, page) == AddNodes(CaptureFirstPage(t, page), page.nodes)

\* the catch block returns nothing
CommitsOnFailureUndefined == Null

\* fetchTotalCommitsAllTime's catch block: return 0
CommitsOnFailure == 0

\* ---------------------------------------------------------------- rank
\* Numbers of calculateRank are exact quotients [num, den] in lowest terms,
\* num >= 0 and den > 0.
Whole(n) == [num |-> n, den |-> 1]

RatAdd(p, q) == Ratio(p.num * q.den + q.num * p.den, p.den * q.den)
RatSub(p, q) == Ratio(p.num * q.den - q.num * p.den, p.den * q.den)
RatMul(p, q) == Ratio(p.num * q.num, p.den * q.den)
RatDiv(p, q) == Ratio(p.num * q.den, p.den * q.num)
RatLeq(p, q) == p.num * q.den <= q.num * p.den

RECURSIVE Pow2(_)
Pow2(n) == IF n = 0 THEN 1 ELSE 2 * Pow2(n - 1)

\* the transform grows downwards
exponentialCDFInverted(x) == Ratio(1, Pow2(x.num))

\* 1 - 2 ** -x ; the quotient is exact at whole x, where the model evaluates it
exponentialCDF(x) ==
  CASE x.den = 1 -> RatSub(Whole(1), Ratio(1, Pow2(x.num)))

\* x / (1 + x)
logNormalCDF(x) == RatDiv(x, RatAdd(Whole(1), x))

COMMITS_MEDIAN(all_commits) == IF all_commits THEN 1000 ELSE 250
COMMITS_WEIGHT == 2
PRS_MEDIAN == 50
PRS_WEIGHT == 3
ISSUES_MEDIAN == 25
ISSUES_WEIGHT == 1
REVIEWS_MEDIAN == 2
REVIEWS_WEIGHT == 1
STARS_MEDIAN == 50
STARS_WEIGHT == 4
FOLLOWERS_MEDIAN == 10
FOLLOWERS_WEIGHT == 1

TOTAL_WEIGHT ==
  COMMITS_WEIGHT + PRS_WEIGHT + ISSUES_WEIGHT + REVIEWS_WEIGHT + STARS_WEIGHT + FOLLOWERS_WEIGHT

\* [1, 12.5, 25, 37.5, 50, 62.5, 75, 87.5, 100]
THRESHOLDS ==
  <<Whole(1), Ratio(25, 2), Whole(25), Ratio(75, 2), Whole(50), Ratio(125, 2), Whole(75),
    Ratio(175, 2), Whole(100)>>
LEVELS == <<"S", "A+", "A", "A-", "B+", "B", "B-", "C+", "C">>

weightedScore(params) ==
  RatAdd(RatMul(Whole(COMMITS_WEIGHT),
                exponentialCDF(Ratio(params.totalCommits, COMMITS_MEDIAN(params.all_commits)))),
  RatAdd(RatMul(Whole(PRS_WEIGHT), exponentialCDF(Ratio(params.prs, PRS_MEDIAN))),
  RatAdd(RatMul(Whole(ISSUES_WEIGHT), exponentialCDF(Ratio(params.issues, ISSUES_MEDIAN))),
  RatAdd(RatMul(Whole(REVIEWS_WEIGHT), exponentialCDF(Ratio(params.reviews, REVIEWS_MEDIAN))),
  RatAdd(RatMul(Whole(STARS_WEIGHT), logNormalCDF(Ratio(params.stars, STARS_MEDIAN))),
         RatMul(Whole(FOLLOWERS_WEIGHT), logNormalCDF(Ratio(params.followers, FOLLOWERS_MEDIAN))))))))

\* the comparison is strict: rank * 100 < t
RECURSIVE FindIndexStrict(_, _)
FindIndexStrict(x, i) ==
  IF i > Len(THRESHOLDS) THEN -1
  ELSE IF RatLeq(x, THRESHOLDS[i]) /\ x # THRESHOLDS[i] THEN i - 1
  ELSE FindIndexStrict(x, i + 1)

\* THRESHOLDS.findIndex((t) => rank * 100 <= t), scanning from index i (1-based)
RECURSIVE FindIndex(_, _)
FindIndex(x, i) ==
  IF i > Len(THRESHOLDS) THEN -1
  ELSE IF RatLeq(x, THRESHOLDS[i]) THEN i - 1
  ELSE FindIndex(x, i + 1)

\* rank = weightedScore / TOTAL_WEIGHT : the inversion is lost
RankOfScoreNotInverted(score) == RatDiv(score, Whole(TOTAL_WEIGHT))

\* const rank = 1 - weightedScore / TOTAL_WEIGHT
RankOfScore(score) == RatSub(Whole(1), RatDiv(score, Whole(TOTAL_WEIGHT)))

calculateRank(params) ==
  LET rank       == RankOfScore(weightedScore(params))
      percentile == RatMul(rank, Whole(100))
      levelIndex == FindIndex(percentile, 1)
      \* LEVELS[levelIndex] ?? LEVELS[LEVELS.length - 1]
      level      == IF levelIndex \in 0..(Len(LEVELS) - 1)
                    THEN LEVELS[levelIndex + 1] ELSE LEVELS[Len(LEVELS)]
  IN  [level |-> level, percentile |-> percentile]

\* the arguments buildStatsSvg gives calculateRank
RankInputs(st) ==
  [all_commits |-> TRUE, totalCommits |-> st.totalCommits, prs |-> st.repos.totalPRs,
   issues |-> st.repos.totalIssues, reviews |-> st.totalReviews,
   stars |-> st.repos.totalStars, followers |-> st.totalFollowers]

\* the stats card returned by buildStatsSvg
StatsCard(st) ==
  SvgResponse([totalStars |-> st.repos.totalStars, totalForks |-> st.repos.totalForks,
               activeReposLastYear |-> st.repos.activeReposLastYear,
               totalPRs |-> st.repos.totalPRs, totalIssues |-> st.repos.totalIssues,
               totalCommits |-> st.totalCommits, totalReviews |-> st.totalReviews,
               totalFollowers |-> st.totalFollowers, rank |-> RankInputs(st)])

\* bytes of language `name` among the edges of one served page
RECURSIVE BytesOf(_, _)
BytesOf(edges, name) ==
  IF edges = <<>> THEN 0
  ELSE (IF edges[1].name = name THEN edges[1].size ELSE 0) + BytesOf(Tail(edges), name)

\* =========================================================================
\* Configuration checks at the top of each handler
\* =========================================================================
NoError == ""

\* GET of the language card: both variables are required
LangConfigError(e) ==
  IF ~e.username THEN "Missing GITHUB_USERNAME"
  ELSE IF ~e.token THEN "Missing GITHUB_TOKEN"
  ELSE NoError

\* buildStreakSvg: only the user name is checked
StreakConfigError(e) ==
  IF ~e.username THEN "Add github username in env.GITHUB_USERNAME" ELSE NoError

\* buildStatsSvg: both variables are required
StatsConfigError(e) ==
  IF ~e.username THEN "Add github username in env.GITHUB_USERNAME"
  ELSE IF ~e.token THEN "Add github token in env.GITHUB_TOKEN"
  ELSE NoError

\* =========================================================================
\* Initial state
\* =========================================================================
Kinds == {"lang", "streak", "stats"}

InitLang == [after |-> 0, totals |-> <<>>]

InitStreak == [start |-> 0, end |-> 0, to |-> 0, contributions |-> <<>>, totalContributions |-> 0]

InitStats ==
  [after |-> 0, repos |-> InitRepoTotals, totalCommits |-> 0,
   page |-> 1, repoLeft |-> 0, prPage |-> 1, prLeft |-> 0, totalReviews |-> 0,
   totalFollowers |-> 0]

\* reviews: the reviews of every pull request listed; repos, prs: the
\* repositories and pull requests the REST lists have carried
InitServed == [stars |-> 0, forks |-> 0, active |-> 0, reviews |-> 0, repos |-> 0, prs |-> 0]

InitHist ==
  [cursors    |-> <<>>,                      \* `after` of every repositories request sent
   issued     |-> {},                        \* the kinds of call issued so far
   served     |-> InitServed,                \* sums over everything the API has served
   commitFailed |-> FALSE,                   \* the commit search rejected
   followersFailed |-> FALSE,                \* the user lookup rejected
   delivered  |-> [n \in Names |-> 0],       \* bytes per language the API has served
   namesSeen  |-> {},                        \* languages the API has served an edge of
   windows    |-> <<>>,                      \* <<start, end>> of every calendar request sent
   lastPage   |-> FALSE,                     \* the page with hasNextPage = false was consumed
   nullUser   |-> FALSE,                     \* a response carried user: null
   pageFailed |-> FALSE,                     \* a page request of a paginated fetch rejected
   ranked     |-> <<>>,                      \* the results calculateRank has returned
   visitedRepos |-> 0,                       \* repositories whose pull requests were listed
   reviewedPrs  |-> 0,                       \* pull requests whose reviews were listed
   firstTotals  |-> <<>>,                    \* <<pullRequests, issues>> of the first repositories page
   laterDiffer  |-> FALSE]                   \* a later page carried other totals than the first

Envs == [username : BOOLEAN, token : BOOLEAN]

\* the parts of the account a card does not read are held at these values
NoCalendar == <<>>

LangAccounts ==
  [npages : 1..MaxPages, pool : LangPools, cal : {NoCalendar},
   statsPool : {PlainStatsPages}, lists : {0..0}]

StreakAccounts(to) ==
  [npages : {1}, pool : {SmallPages}, cal : [1..(DayOf(to) + 1) -> CountValues],
   statsPool : {PlainStatsPages}, lists : {0..0}]

\* an account is rich either in its repositories connection or in its REST
\* lists of repositories, pull requests and reviews
StatsAccounts ==
  [npages : 1..MaxPages, pool : {SmallPages}, cal : {NoCalendar},
   statsPool : {RichStatsPages}, lists : {0..0}]
  \cup
  [npages : {1}, pool : {SmallPages}, cal : {NoCalendar},
   statsPool : {PlainStatsPages}, lists : {0..MaxList}]

PcValues ==
  {"idle", "start", "lang_page", "streak_window", "analyse", "stats_page", "stats_commits",
   "rev_repos", "rev_prs", "rev_reviews", "stats_followers", "done", "rank", "ranked"}

TypeOK ==
  /\ env \in Envs
  /\ \A r \in Reqs :
       /\ pc[r] \in PcValues
       /\ kind[r] \in Kinds \cup {"none"}
       /\ calls[r] \in 0..MaxCalls
       /\ resp[r].status \in {"none", "svg", "error"}
       /\ (pc[r] = "done") = (resp[r].status # "none")

InitCommon ==
  /\ calls = [r \in Reqs |-> 0]
  /\ resp = [r \in Reqs |-> NoResponse]
  /\ lang = [r \in Reqs |-> InitLang]
  /\ stats = [r \in Reqs |-> InitStats]
  /\ hist = [r \in Reqs |-> InitHist]

\* one request (request "a"), to any of the three cards, under any configuration
Init ==
  /\ InitCommon
  /\ env \in Envs
  /\ \E k \in Kinds :
       /\ kind = [r \in Reqs |-> IF r = "a" THEN k ELSE "none"]
       /\ \/ /\ k = "lang"
             /\ gh \in LangAccounts
             /\ streak = [r \in Reqs |-> InitStreak]
          \/ /\ k = "streak"
             /\ \E to \in (-1)..MaxTo :
                  /\ gh \in StreakAccounts(to)
                  /\ streak = [r \in Reqs |-> [InitStreak EXCEPT !.to = to]]
          \/ /\ k = "stats"
             /\ gh \in StatsAccounts
             /\ streak = [r \in Reqs |-> InitStreak]
  /\ pc = [r \in Reqs |-> IF kind[r] = "none" THEN "idle" ELSE "start"]

\* a day sequence sorted ascending by date, one entry per date
DaySeq(c) == [i \in 1..Len(c) |-> [date |-> i - 1, count |-> c[i]]]

\* the streak computation alone: a request whose fetchContributions has
\* returned `contributions`, any day sequence of up to MaxLen days
AnalyseInit ==
  /\ InitCommon
  /\ env = [username |-> TRUE, token |-> TRUE]
  /\ gh \in StreakAccounts(-1)
  /\ kind = [r \in Reqs |-> IF r = "a" THEN "streak" ELSE "none"]
  /\ pc = [r \in Reqs |-> IF r = "a" THEN "analyse" ELSE "idle"]
  /\ \E n \in 0..MaxLen : \E c \in [1..n -> ScanCounts] :
       streak = [r \in Reqs |->
                   IF r = "a"
                   THEN [InitStreak EXCEPT !.contributions = DaySeq(c),
                                           !.totalContributions = SumSeq(c)]
                   ELSE InitStreak]

\* =========================================================================
\* Language card: GET and fetchTopLanguages
\* =========================================================================
\* an exception is not caught by the handler: no Response is returned for it
FinishUncaught(r, response) ==
  /\ resp' = [resp EXCEPT ![r] = IF response.status = "error" THEN NoResponse ELSE response]
  /\ pc' = [pc EXCEPT ![r] = "done"]

\* `return new Response(...)`, from the try block or from the catch block
Finish(r, response) ==
  /\ resp' = [resp EXCEPT ![r] = response]
  /\ pc' = [pc EXCEPT ![r] = "done"]

\* the cursor is never advanced
NextAfterStuck(after, info) == after

\* after = pageInfo.endCursor
NextAfter(after, info) == info.endCursor

\* `after` and `totals` are module-level: starting a fetch resets them for all
LangStartShared(r) ==
  /\ pc[r] = "start" /\ kind[r] = "lang"
  /\ IF LangConfigError(env) # NoError
     THEN /\ Finish(r, ErrorResponse(LangConfigError(env)))
          /\ UNCHANGED <<calls, lang, hist>>
     ELSE /\ lang' = [q \in Reqs |-> InitLang]
          /\ calls' = [calls EXCEPT ![r] = @ + 1]
          /\ hist' = [hist EXCEPT ![r].cursors = Append(@, InitLang.after)]
          /\ pc' = [pc EXCEPT ![r] = "lang_page"]
          /\ UNCHANGED resp
  /\ UNCHANGED <<env, gh, kind, streak, stats>>

\* GET: configuration checks, then fetchTopLanguages up to its first await
LangStart(r) ==
  /\ pc[r] = "start" /\ kind[r] = "lang"
  /\ IF LangConfigError(env) # NoError
     THEN /\ Finish(r, ErrorResponse(LangConfigError(env)))
          /\ UNCHANGED <<calls, lang, hist>>
     ELSE /\ lang' = [lang EXCEPT ![r] = InitLang]
          /\ calls' = [calls EXCEPT ![r] = @ + 1]
          /\ hist' = [hist EXCEPT ![r].cursors = Append(@, InitLang.after)]
          /\ pc' = [pc EXCEPT ![r] = "lang_page"]
          /\ UNCHANGED resp
  /\ UNCHANGED <<env, gh, kind, streak, stats>>

\* a page of repositories arrives: accumulate it, then either request the
\* next page or leave the loop, compute the shares and return the card
LangPage(r) ==
  /\ pc[r] = "lang_page"
  /\ \E repos \in gh.pool :
       LET info == PageInfo(gh.npages, lang[r].after)
           t    == AccumulatePage(lang[r].totals, repos)
       IN  /\ hist' = [hist EXCEPT
                 ![r].delivered = [n \in Names |-> @[n] + BytesOf(Flatten(repos), n)],
                 ![r].namesSeen = @ \cup {Flatten(repos)[i].name : i \in 1..Len(Flatten(repos))},
                 ![r].lastPage = ~info.hasNextPage,
                 ![r].cursors = IF info.hasNextPage
                                THEN Append(@, NextAfter(lang[r].after, info)) ELSE @]
           /\ IF info.hasNextPage
              THEN /\ calls[r] < MaxCalls
                   /\ lang' = [lang EXCEPT ![r] =
                                 [after |-> NextAfter(lang[r].after, info), totals |-> t]]
                   /\ calls' = [calls EXCEPT ![r] = @ + 1]
                   /\ UNCHANGED <<pc, resp>>
              ELSE /\ lang' = [lang EXCEPT ![r].totals = t]
                   /\ Finish(r, SvgResponse(TopLanguages(t)))
                   /\ UNCHANGED calls
  /\ UNCHANGED <<env, gh, kind, streak, stats>>

\* the response carries user: null: `res.user?.repositories?.nodes ?? []` is
\* empty and pageInfo is undefined, so the loop ends with what it has
LangPageNullUser(r) ==
  /\ pc[r] = "lang_page"
  /\ hist' = [hist EXCEPT ![r].nullUser = TRUE]
  /\ Finish(r, SvgResponse(TopLanguages(lang[r].totals)))
  /\ UNCHANGED <<env, gh, kind, calls, lang, streak, stats>>

\* the rejection is caught inside the loop and ends it
LangPageFailSwallowed(r) ==
  /\ pc[r] = "lang_page"
  /\ hist' = [hist EXCEPT ![r].pageFailed = TRUE]
  /\ Finish(r, SvgResponse(TopLanguages(lang[r].totals)))
  /\ UNCHANGED <<env, gh, kind, calls, lang, streak, stats>>

\* octokit.graphql rejects: the exception reaches the catch block of GET
LangPageFail(r) ==
  /\ pc[r] = "lang_page"
  /\ hist' = [hist EXCEPT ![r].pageFailed = TRUE]
  /\ Finish(r, ErrorResponse(UpstreamError))
  /\ UNCHANGED <<env, gh, kind, calls, lang, streak, stats>>

\* =========================================================================
\* Streak card: buildStreakSvg and fetchContributions
\* =========================================================================
\* buildStreakSvg: the configuration check, then fetchContributions up to its
\* first await (or straight to the card when the loop body never runs)
StreakStart(r) ==
  /\ pc[r] = "start" /\ kind[r] = "streak"
  /\ IF StreakConfigError(env) # NoError
     THEN /\ Finish(r, ErrorResponse(StreakConfigError(env)))
          /\ UNCHANGED <<calls, streak, hist>>
     ELSE LET start == 0
              end   == WindowEnd(start, streak[r].to)
          IN  /\ streak' = [streak EXCEPT ![r].start = start, ![r].end = end,
                              ![r].contributions = <<>>, ![r].totalContributions = 0]
              /\ IF start < streak[r].to
                 THEN /\ calls' = [calls EXCEPT ![r] = @ + 1]
                      /\ hist' = [hist EXCEPT ![r].windows = Append(@, <<start, end>>)]
                      /\ pc' = [pc EXCEPT ![r] = "streak_window"]
                      /\ UNCHANGED resp
                 ELSE /\ Finish(r, StreakCard(<<>>, 0))
                      /\ UNCHANGED <<calls, hist>>
  /\ UNCHANGED <<env, gh, kind, lang, stats>>

\* the calendar of one sub-window arrives: append its days, add its total,
\* move to the next sub-window and either request it or build the card
StreakWindow(r) ==
  /\ pc[r] = "streak_window"
  /\ LET cur   == streak[r]
         days  == cur.contributions \o CalendarDays(gh.cal, cur.start, cur.end)
         total == cur.totalContributions + CalendarTotal(gh.cal, cur.start, cur.end)
         start == NextStart(cur.end)
         end   == WindowEnd(start, cur.to)
     IN  /\ streak' = [streak EXCEPT ![r].start = start, ![r].end = end,
                         ![r].contributions = days, ![r].totalContributions = total]
         /\ IF start < cur.to
            THEN /\ calls[r] < MaxCalls
                 /\ calls' = [calls EXCEPT ![r] = @ + 1]
                 /\ hist' = [hist EXCEPT ![r].windows = Append(@, <<start, end>>)]
                 /\ UNCHANGED <<pc, resp>>
            ELSE /\ Finish(r, StreakCard(days, total))
                 /\ UNCHANGED <<calls, hist>>
  /\ UNCHANGED <<env, gh, kind, lang, stats>>

\* the response carries user: null: `user.contributionsCollection` throws
StreakWindowNullUser(r) ==
  /\ pc[r] = "streak_window"
  /\ hist' = [hist EXCEPT ![r].nullUser = TRUE]
  /\ Finish(r, ErrorResponse("TypeError"))
  /\ UNCHANGED <<env, gh, kind, calls, lang, streak, stats>>

\* octokit.graphql rejects: the exception reaches buildStreakSvg's catch block
StreakWindowFail(r) ==
  /\ pc[r] = "streak_window"
  /\ hist' = [hist EXCEPT ![r].pageFailed = TRUE]
  /\ Finish(r, ErrorResponse(UpstreamError))
  /\ UNCHANGED <<env, gh, kind, calls, lang, streak, stats>>

\* buildStreakSvg after fetchContributions has returned
AnalyseStreak(r) ==
  /\ pc[r] = "analyse"
  /\ Finish(r, StreakCard(streak[r].contributions, streak[r].totalContributions))
  /\ UNCHANGED <<env, gh, kind, calls, lang, streak, stats, hist>>

\* =========================================================================
\* Stats card: buildStatsSvg and its four fetchers
\* =========================================================================
\* after = pageInfo.endCursor (sent as vars.after by the next iteration)
StatsNextAfter(after, info) == info.endCursor

PageSum(nodes, field) == SumSeq([i \in 1..Len(nodes) |-> nodes[i][field]])
PageActive(nodes) == Cardinality({i \in 1..Len(nodes) : nodes[i].active})

\* buildStatsSvg: configuration checks, then fetchAllRepos up to its first await
StatsStart(r) ==
  /\ pc[r] = "start" /\ kind[r] = "stats"
  /\ IF StatsConfigError(env) # NoError
     THEN /\ Finish(r, ErrorResponse(StatsConfigError(env)))
          /\ UNCHANGED <<calls, stats, hist>>
     ELSE /\ stats' = [stats EXCEPT ![r] = InitStats]
          /\ calls' = [calls EXCEPT ![r] = @ + 1]
          /\ hist' = [hist EXCEPT ![r].cursors = Append(@, InitStats.after),
                                  ![r].issued = @ \cup {"repos"}]
          /\ pc' = [pc EXCEPT ![r] = "stats_page"]
          /\ UNCHANGED resp
  /\ UNCHANGED <<env, gh, kind, lang, streak>>

\* a page of repositories arrives: capture the first page's totals, add the
\* nodes, then request the next page or, after the last one, return from
\* fetchAllRepos and send the commit search of fetchTotalCommitsAllTime
StatsPage(r) ==
  /\ pc[r] = "stats_page"
  /\ calls[r] < MaxCalls
  /\ \E page \in gh.statsPool :
       LET info == PageInfo(gh.npages, stats[r].after)
           t    == AccumulateStatsPage(stats[r].repos, page)
           next == StatsNextAfter(stats[r].after, info)
       IN  /\ stats' = [stats EXCEPT ![r].repos = t,
                           ![r].after = IF info.hasNextPage THEN next ELSE @]
           /\ hist' = [hist EXCEPT
                 ![r].served = [@ EXCEPT
                                  !.stars = @ + PageSum(page.nodes, "stargazerCount"),
                                  !.forks = @ + PageSum(page.nodes, "forkCount"),
                                  !.active = @ + PageActive(page.nodes)],
                 ![r].lastPage = ~info.hasNextPage,
                 ![r].cursors = IF info.hasNextPage THEN Append(@, next) ELSE @,
                 ![r].issued = IF info.hasNextPage THEN @ ELSE @ \cup {"commits"},
                 ![r].firstTotals = IF stats[r].after = 0
                                    THEN <<page.pullRequests, page.issues>> ELSE @,
                 ![r].laterDiffer = IF stats[r].after = 0 THEN @
                                    ELSE @ \/ <<page.pullRequests, page.issues>> # hist[r].firstTotals]
           /\ pc' = [pc EXCEPT ![r] = IF info.hasNextPage THEN "stats_page" ELSE "stats_commits"]
  /\ calls' = [calls EXCEPT ![r] = @ + 1]
  /\ UNCHANGED <<env, gh, kind, resp, lang, streak>>

\* if (!user) throw new Error("Could not fetch user data from GraphQL")
StatsPageNullUser(r) ==
  /\ pc[r] = "stats_page"
  /\ hist' = [hist EXCEPT ![r].nullUser = TRUE]
  /\ Finish(r, ErrorResponse("Could not fetch user data from GraphQL"))
  /\ UNCHANGED <<env, gh, kind, calls, lang, streak, stats>>

\* octokit.graphql rejects inside fetchAllRepos
StatsPageFail(r) ==
  /\ pc[r] = "stats_page"
  /\ hist' = [hist EXCEPT ![r].pageFailed = TRUE]
  /\ Finish(r, ErrorResponse(UpstreamError))
  /\ UNCHANGED <<env, gh, kind, calls, lang, streak, stats>>

\* fetchTotalCommitsAllTime has its count (total_count ?? 0, or what its catch
\* block returns); fetchTotalReviewsAllTime starts and lists the first page
CommitsThenReviews(r, count, rejected) ==
  /\ pc[r] = "stats_commits"
  /\ calls[r] < MaxCalls
  /\ stats' = [stats EXCEPT ![r].totalCommits = count, ![r].page = 1, ![r].totalReviews = 0]
  /\ hist' = [hist EXCEPT ![r].commitFailed = rejected,
                          ![r].issued = @ \cup {"listForUser"}]
  /\ calls' = [calls EXCEPT ![r] = @ + 1]
  /\ pc' = [pc EXCEPT ![r] = "rev_repos"]
  /\ UNCHANGED <<env, gh, kind, resp, lang, streak>>

StatsCommits(r) == \E c \in CommitCounts : CommitsThenReviews(r, c, FALSE)

\* GET /search/commits rejects: caught inside fetchTotalCommitsAllTime
StatsCommitsFail(r) == CommitsThenReviews(r, CommitsOnFailure, TRUE)

\* repos.listForUser resolves with n repositories: none ends the traversal and
\* fetchFollowersCount sends its request; otherwise the first repository's
\* pull requests are listed
RevRepos(r) ==
  /\ pc[r] = "rev_repos"
  /\ calls[r] < MaxCalls
  /\ \E n \in gh.lists :
       IF n = 0
       THEN /\ pc' = [pc EXCEPT ![r] = "stats_followers"]
            /\ hist' = [hist EXCEPT ![r].issued = @ \cup {"user"}]
            /\ UNCHANGED stats
       ELSE /\ stats' = [stats EXCEPT ![r].repoLeft = n, ![r].prPage = 1]
            /\ hist' = [hist EXCEPT ![r].issued = @ \cup {"pulls"},
                                    ![r].served.repos = @ + n,
                                    ![r].visitedRepos = @ + 1]
            /\ pc' = [pc EXCEPT ![r] = "rev_prs"]
  /\ calls' = [calls EXCEPT ![r] = @ + 1]
  /\ UNCHANGED <<env, gh, kind, resp, lang, streak>>

\* pulls.list resolves with m pull requests: none ends this repository's
\* loop (next repository, or next page of repositories); otherwise the first
\* pull request's reviews are listed
RevPrs(r) ==
  /\ pc[r] = "rev_prs"
  /\ calls[r] < MaxCalls
  /\ \E m \in gh.lists :
       IF m = 0
       THEN IF stats[r].repoLeft > 1
            THEN /\ stats' = [stats EXCEPT ![r].repoLeft = @ - 1, ![r].prPage = 1]
                 /\ hist' = [hist EXCEPT ![r].visitedRepos = @ + 1]
                 /\ UNCHANGED pc
            ELSE /\ stats' = [stats EXCEPT ![r].repoLeft = 0, ![r].page = @ + 1]
                 /\ pc' = [pc EXCEPT ![r] = "rev_repos"]
                 /\ UNCHANGED hist
       ELSE /\ stats' = [stats EXCEPT ![r].prLeft = m]
            /\ hist' = [hist EXCEPT ![r].issued = @ \cup {"listReviews"},
                                    ![r].served.prs = @ + m,
                                    ![r].reviewedPrs = @ + 1]
            /\ pc' = [pc EXCEPT ![r] = "rev_reviews"]
  /\ calls' = [calls EXCEPT ![r] = @ + 1]
  /\ UNCHANGED <<env, gh, kind, resp, lang, streak>>

\* pulls.listReviews resolves for a pull request that has `total` reviews:
\* reviews.length is added, then the next pull request of the page is listed
\* or the next page of pull requests
RevReviews(r) ==
  /\ pc[r] = "rev_reviews"
  /\ calls[r] < MaxCalls
  /\ \E total \in ReviewTotals :
       LET k == ListedReviews(total)
       IN  IF stats[r].prLeft > 1
           THEN /\ stats' = [stats EXCEPT ![r].totalReviews = @ + k, ![r].prLeft = @ - 1]
                /\ hist' = [hist EXCEPT ![r].served.reviews = @ + total,
                                        ![r].reviewedPrs = @ + 1]
                /\ UNCHANGED pc
           ELSE /\ stats' = [stats EXCEPT ![r].totalReviews = @ + k, ![r].prLeft = 0,
                                ![r].prPage = @ + 1]
                /\ hist' = [hist EXCEPT ![r].served.reviews = @ + total]
                /\ pc' = [pc EXCEPT ![r] = "rev_prs"]
  /\ calls' = [calls EXCEPT ![r] = @ + 1]
  /\ UNCHANGED <<env, gh, kind, resp, lang, streak>>

\* a REST call of fetchTotalReviewsAllTime rejects
RevFail(r) ==
  /\ pc[r] \in {"rev_repos", "rev_prs", "rev_reviews"}
  /\ hist' = [hist EXCEPT ![r].pageFailed = TRUE]
  /\ Finish(r, ErrorResponse(UpstreamError))
  /\ UNCHANGED <<env, gh, kind, calls, lang, streak, stats>>

\* users.getByUsername resolves: the rank is computed and the card returned
StatsFollowers(r) ==
  /\ pc[r] = "stats_followers"
  /\ \E f \in FollowerCounts :
       /\ stats' = [stats EXCEPT ![r].totalFollowers = f]
       /\ Finish(r, StatsCard([stats[r] EXCEPT !.totalFollowers = f]))
  /\ UNCHANGED <<env, gh, kind, calls, lang, streak, hist>>

\* users.getByUsername rejects
StatsFollowersFail(r) ==
  /\ pc[r] = "stats_followers"
  /\ hist' = [hist EXCEPT ![r].followersFailed = TRUE]
  /\ Finish(r, ErrorResponse(UpstreamError))
  /\ UNCHANGED <<env, gh, kind, calls, lang, streak, stats>>

\* the steps request r can take: at each await the call resolves or rejects
RequestStep(r) ==
    \/ LangStart(r)
    \/ LangPageFail(r)
    \/ LangPage(r)
    \/ LangPageNullUser(r)
    \/ StreakStart(r)
    \/ StreakWindowFail(r)
    \/ StreakWindow(r)
    \/ StreakWindowNullUser(r)
    \/ StatsStart(r)
    \/ StatsPageFail(r)
    \/ StatsPage(r)
    \/ StatsPageNullUser(r)
    \/ StatsCommits(r)
    \/ StatsCommitsFail(r)
    \/ RevFail(r)
    \/ RevRepos(r)
    \/ RevPrs(r)
    \/ RevReviews(r)
    \/ StatsFollowersFail(r)
    \/ StatsFollowers(r)

Next == \E r \in Reqs : RequestStep(r)

Spec == Init /\ [][Next]_vars

AnalyseNext == \E r \in Reqs : AnalyseStreak(r)

SpecStreak == AnalyseInit /\ [][AnalyseNext]_vars

\* =========================================================================
\* Two requests in flight at once
\* =========================================================================
\* a calendar over the days up to the later of the two `to`
ConcurrentCalendar ==
  [d \in 1..(DayOf(2 * Window + Step) + 1) |-> IF d = 2 THEN 0 ELSE 1]

\* the account the two requests are served from
ConcurrentAccounts ==
  [npages : 1..2, pool : {ScenarioPages}, cal : {ConcurrentCalendar},
   statsPool : {PlainStatsPages}, lists : {0..0}]

\* an account whose REST lists carry a repository and a pull request
ReviewAccounts ==
  [npages : {1}, pool : {ScenarioPages}, cal : {ConcurrentCalendar},
   statsPool : {PlainStatsPages}, lists : {0..1}]

\* both handlers have been entered, for any two cards (a stats request that
\* walks the reviews runs next to a request of another card); the
\* configuration is complete
ConcurrentInit ==
  /\ InitCommon
  /\ env = [username |-> TRUE, token |-> TRUE]
  /\ \/ gh \in ConcurrentAccounts /\ kind \in [Reqs -> Kinds]
     \/ /\ gh \in ReviewAccounts
        /\ kind \in {k \in [Reqs -> Kinds] : k["a"] = "stats" /\ k["b"] # "stats"}
  /\ \E to \in [Reqs -> {Window + Step, 2 * Window + Step}] :
       streak = [r \in Reqs |-> [InitStreak EXCEPT !.to = to[r]]]
  /\ pc = [r \in Reqs |-> "start"]

\* the event loop runs one request's continuation at a time, in any order
SpecConcurrent == ConcurrentInit /\ [][Next]_vars

\* =========================================================================
\* calculateRank alone
\* =========================================================================
RankFields == {"totalCommits", "prs", "issues", "reviews", "stars", "followers"}

MedianOf(field, all_commits) ==
  CASE field = "totalCommits" -> COMMITS_MEDIAN(all_commits)
    [] field = "prs"          -> PRS_MEDIAN
    [] field = "issues"       -> ISSUES_MEDIAN
    [] field = "reviews"      -> REVIEWS_MEDIAN
    [] field = "stars"        -> STARS_MEDIAN
    [] field = "followers"    -> FOLLOWERS_MEDIAN

\* RankParams with every count a whole multiple of its median
RankParams(all_commits, mult) ==
  [all_commits  |-> all_commits,
   totalCommits |-> mult["totalCommits"] * COMMITS_MEDIAN(all_commits),
   prs          |-> mult["prs"] * PRS_MEDIAN,
   issues       |-> mult["issues"] * ISSUES_MEDIAN,
   reviews      |-> mult["reviews"] * REVIEWS_MEDIAN,
   stars        |-> mult["stars"] * STARS_MEDIAN,
   followers    |-> mult["followers"] * FOLLOWERS_MEDIAN]

\* a caller about to call calculateRank(params), params held in stats[r]
RankInit ==
  /\ calls = [r \in Reqs |-> 0]
  /\ resp = [r \in Reqs |-> NoResponse]
  /\ lang = [r \in Reqs |-> InitLang]
  /\ streak = [r \in Reqs |-> InitStreak]
  /\ hist = [r \in Reqs |-> InitHist]
  /\ env = [username |-> TRUE, token |-> TRUE]
  /\ gh \in StreakAccounts(-1)
  /\ kind = [r \in Reqs |-> IF r = "a" THEN "stats" ELSE "none"]
  /\ pc = [r \in Reqs |-> IF r = "a" THEN "rank" ELSE "idle"]
  /\ \E all_commits \in BOOLEAN : \E mult \in [RankFields -> 0..MaxMult] :
       stats = [r \in Reqs |-> IF r = "a" THEN RankParams(all_commits, mult) ELSE InitStats]

\* const rank = calculateRank({...})
RankCall(r) ==
  /\ pc[r] = "rank"
  /\ resp' = [resp EXCEPT ![r] = SvgResponse(calculateRank(stats[r]))]
  /\ hist' = [hist EXCEPT ![r].ranked = Append(@, calculateRank(stats[r]))]
  /\ pc' = [pc EXCEPT ![r] = "ranked"]
  /\ UNCHANGED <<env, gh, kind, calls, lang, streak, stats>>

\* calculateRank called again with one count raised and the others as before
RankRaise(r) ==
  /\ pc[r] = "ranked"
  /\ Len(hist[r].ranked) < 2
  /\ \E field \in RankFields : \E m \in 1..MaxMult :
       LET params == [stats[r] EXCEPT ![field] = m * MedianOf(field, stats[r].all_commits)]
       IN  /\ stats[r][field] < params[field]
           /\ stats' = [stats EXCEPT ![r] = params]
           /\ resp' = [resp EXCEPT ![r] = SvgResponse(calculateRank(params))]
           /\ hist' = [hist EXCEPT ![r].ranked = Append(@, calculateRank(params))]
  /\ UNCHANGED <<env, gh, kind, calls, lang, streak, pc>>

RankNext == \E r \in Reqs : RankCall(r) \/ RankRaise(r)

SpecRank == RankInit /\ [][RankNext]_vars

\* =========================================================================
\* Properties
\* =========================================================================
LangCard(r) == kind[r] = "lang" /\ pc[r] = "done" /\ resp[r].status = "svg"

StreakCardDone(r) == kind[r] = "streak" /\ pc[r] = "done" /\ resp[r].status = "svg"

SetMax(S) == CHOOSE x \in S : \A y \in S : y <= x

\* number of days at the end of the sequence that all have a count above 0
TrailingNonzero(days) ==
  SetMax({k \in 0..Len(days) : \A i \in (Len(days) - k + 1)..Len(days) : days[i].count > 0})

\* is s..e (1-based) a run of days that all have a count above 0
IsRun(days, s, e) == \A i \in s..e : days[i].count > 0

\* length of the longest run of consecutive days with a count above 0
MaxRun(days) ==
  SetMax({k \in 0..Len(days) : \E s \in 1..(Len(days) - k + 1) : IsRun(days, s, s + k - 1)})

Counts(days) == [i \in 1..Len(days) |-> days[i].count]

C2_LongestRangePresent ==
  \A r \in Reqs :
    StreakCardDone(r) =>
      LET b == resp[r].body
          days == b.days
      IN  /\ b.longestStreak > 0 =>
               /\ b.bestStart >= 0 /\ b.bestEnd >= 0
               /\ b.bestEnd - b.bestStart + 1 = b.longestStreak
               /\ IsRun(days, b.bestStart + 1, b.bestEnd + 1)
               /\ \A s \in 1..b.bestStart :
                     ~IsRun(days, s, s + b.longestStreak - 1)
          /\ (b.bestStart < 0 \/ b.bestEnd < 0) => b.longestStreak = 0

\* C3: no calendar day is covered by two sub-windows, so the collected day
\* sequence has every date once and totalContributions counts every day of
\* the calendar once.
C3_NoDayCountedTwice ==
  \A r \in Reqs :
    /\ \A i, j \in 1..Len(hist[r].windows) :
         i < j => DayOf(hist[r].windows[i][2]) < DayOf(hist[r].windows[j][1])
    /\ \A i, j \in 1..Len(streak[r].contributions) :
         i # j => streak[r].contributions[i].date # streak[r].contributions[j].date
    /\ (StreakCardDone(r) /\ streak[r].to >= 0) =>
         resp[r].body.totalContributions
           <= SumSeq([d \in 1..(DayOf(streak[r].to) + 1) |-> gh.cal[d]])

RECURSIVE SumOver(_, _)
SumOver(f, S) ==
  IF S = {} THEN 0 ELSE LET x == CHOOSE y \in S : TRUE IN f[x] + SumOver(f, S \ {x})

DeliveredTotal(r) == SumOver(hist[r].delivered, Names)

BodyNames(r) == {resp[r].body[i].name : i \in 1..Len(resp[r].body)}

\* C4: when the total byte sum over all fetched languages is zero (no edge
\* seen, or only edges of size 0) the language list returned is empty, and no
\* returned entry ever has a NaN percent.
C4_ZeroTotalGivesEmptyList ==
  \A r \in Reqs :
    LangCard(r) =>
      /\ DeliveredTotal(r) = 0 => resp[r].body = <<>>
      /\ \A i \in 1..Len(resp[r].body) : ~IsNaN(resp[r].body[i].percent)

\* C5: with a positive total, every returned entry's percent is
\* 100 * (bytes served for that language) / (bytes served for all languages),
\* and the returned percentages sum to at most 100.
C5_PercentIsShareOfAllBytes ==
  \A r \in Reqs :
    (LangCard(r) /\ DeliveredTotal(r) > 0) =>
      /\ \A i \in 1..Len(resp[r].body) :
           \* percent * total = 100 * bytes, both sides reduced by the percent's den
           /\ ~IsNaN(resp[r].body[i].percent)
           /\ DeliveredTotal(r) % resp[r].body[i].percent.den = 0
           /\ resp[r].body[i].percent.num * (DeliveredTotal(r) \div resp[r].body[i].percent.den)
                = 100 * hist[r].delivered[resp[r].body[i].name]
      /\ SumSeq([i \in 1..Len(resp[r].body) |->
                   resp[r].body[i].percent.num
                     * (DeliveredTotal(r) \div resp[r].body[i].percent.den)])
           <= 100 * DeliveredTotal(r)

\* the documented example: JS 1000 of 1400, Python 400 of 1400
C5_Witness ==
  \E r \in Reqs :
    /\ LangCard(r)
    /\ hist[r].delivered["JS"] = 1000 /\ hist[r].delivered["Python"] = 400
    /\ DeliveredTotal(r) = 1400
    /\ Len(hist[r].cursors) = 2
    /\ Len(resp[r].body) = 2
    /\ resp[r].body[1] = [name |-> "JS", percent |-> [num |-> 500, den |-> 7]]
    /\ resp[r].body[2] = [name |-> "Python", percent |-> [num |-> 200, den |-> 7]]

\* C6: the returned list has at most 6 entries, its percents never increase
\* from one entry to the next, no language name occurs twice, no language left
\* out has more bytes than a language kept, and the list has
\* min(6, number of distinct languages) entries.
C6_TopSixByBytes ==
  \A r \in Reqs :
    LangCard(r) =>
      LET body == resp[r].body IN
      /\ Len(body) <= 6
      /\ Len(body) = Min(6, Cardinality(hist[r].namesSeen))
      /\ \A i, j \in 1..Len(body) : i < j => ~PercentLess(body[i].percent, body[j].percent)
      /\ \A i, j \in 1..Len(body) : i # j => body[i].name # body[j].name
      /\ BodyNames(r) \subseteq hist[r].namesSeen
      /\ \A out \in hist[r].namesSeen \ BodyNames(r) : \A in \in BodyNames(r) :
           hist[r].delivered[out] <= hist[r].delivered[in]

\* seven languages were served, with different byte totals, and one was dropped
C6_Witness ==
  \E r \in Reqs :
    /\ LangCard(r)
    /\ Cardinality(hist[r].namesSeen) = 7
    /\ Len(resp[r].body) = 6
    /\ \E i \in 1..5 : PercentLess(resp[r].body[i + 1].percent, resp[r].body[i].percent)
    /\ DeliveredTotal(r) > 0

\* ------------------------------------------------------------------ C7
InPageLoop(r) == pc[r] \in {"lang_page", "stats_page"}

\* the request has left fetchAllRepos' loop by its `done = true`
PastStatsLoop(r) ==
  \/ pc[r] \in {"stats_commits", "rev_repos", "rev_prs", "rev_reviews", "stats_followers"}
  \/ kind[r] = "stats" /\ pc[r] = "done" /\ "commits" \in hist[r].issued

TotalsMatchDelivered(r) ==
  /\ {lang[r].totals[i].name : i \in 1..Len(lang[r].totals)} = hist[r].namesSeen
  /\ \A i \in 1..Len(lang[r].totals) :
       lang[r].totals[i].size = hist[r].delivered[lang[r].totals[i].name]

RepoTotalsMatchServed(r) ==
  /\ stats[r].repos.totalStars = hist[r].served.stars
  /\ stats[r].repos.totalForks = hist[r].served.forks
  /\ stats[r].repos.activeReposLastYear = hist[r].served.active

C7_Safety ==
  \A r \in Reqs :
    \* page k + 1 is requested with the cursor page k returned, N requests at most
    /\ Len(hist[r].cursors) <= gh.npages
    /\ \A i \in 1..Len(hist[r].cursors) : hist[r].cursors[i] = i - 1
    \* the language card is computed after the last page, from every node once
    /\ (LangCard(r) /\ ~hist[r].nullUser) =>
         /\ hist[r].lastPage
         /\ Len(hist[r].cursors) = gh.npages
         /\ calls[r] = gh.npages
         /\ TotalsMatchDelivered(r)
    \* fetchAllRepos returns after the last page, with every node added once
    /\ PastStatsLoop(r) =>
         /\ hist[r].lastPage
         /\ Len(hist[r].cursors) = gh.npages
         /\ RepoTotalsMatchServed(r)

\* C7: over a connection of N pages both repository loops end after exactly
\* N page requests, request page k + 1 with the cursor of page k, add every
\* node of every page once, and finish their totals only after the page with
\* hasNextPage = false.
C7_PaginationDrainsAllPages ==
  /\ []C7_Safety
  \* every step taken inside a loop sends the next page request or leaves the loop
  /\ [][\A r \in Reqs :
         (InPageLoop(r) /\ pc'[r] = pc[r] /\ hist'[r] # hist[r]) =>
            Len(hist'[r].cursors) = Len(hist[r].cursors) + 1]_vars

\* three pages were drained and the card was computed from all of them
C7_Witness ==
  \E r \in Reqs :
    /\ LangCard(r) /\ ~hist[r].nullUser
    /\ gh.npages = 3 /\ hist[r].cursors = <<0, 1, 2>>
    /\ \E i \in 1..Len(lang[r].totals) : lang[r].totals[i].size >= 3

\* ------------------------------------------------------------------ C8
ConfigMissing == ~env.username \/ ~env.token

\* C8: with GITHUB_USERNAME or GITHUB_TOKEN missing, a request to any card
\* issues no network call and ends with an error output that carries a message.
C8_ConfigErrorBeforeAnyCall ==
  \A r \in Reqs :
    (kind[r] \in Kinds /\ ConfigMissing) =>
      /\ calls[r] = 0
      /\ pc[r] = "done" => (resp[r].status = "error" /\ resp[r].message # "")

\* ------------------------------------------------------------------ C9
\* C9: when the commit search rejects, the commit count is 0, the review and
\* follower fetches are still made, and unless one of those other fetches
\* rejects the request ends with the stats card, its rank computed from
\* totalCommits = 0.
C9_CommitFailureDegradesToZero ==
  \A r \in Reqs :
    hist[r].commitFailed =>
      /\ stats[r].totalCommits = 0
      /\ "listForUser" \in hist[r].issued
      /\ pc[r] = "done" =>
           IF hist[r].pageFailed \/ hist[r].followersFailed
           THEN resp[r].status = "error"
           ELSE /\ resp[r].status = "svg"
                /\ "user" \in hist[r].issued
                /\ resp[r].body.totalCommits = 0
                /\ resp[r].body.rank.totalCommits = 0

\* the commit search rejected, reviews were then counted, and the card was returned
C9_Witness ==
  \E r \in Reqs :
    /\ hist[r].commitFailed
    /\ pc[r] = "done" /\ resp[r].status = "svg"
    /\ resp[r].body.totalReviews > 0
    /\ resp[r].body.totalFollowers > 0
    /\ resp[r].body.rank.totalCommits = 0

\* ------------------------------------------------------------------ C10
\* C10: once a page request of a paginated fetch has rejected, the request
\* ends with the error output; no card is built from the pages fetched before.
C10_PageFailureIsFatal ==
  \A r \in Reqs :
    hist[r].pageFailed => (pc[r] = "done" /\ resp[r].status = "error")

\* the second page of the language query rejected after a first page with bytes
C10_Witness ==
  \E r \in Reqs :
    /\ kind[r] = "lang" /\ hist[r].pageFailed
    /\ Len(hist[r].cursors) = 2
    /\ TotalSize(lang[r].totals) > 0
    /\ resp[r].status = "error"

\* ------------------------------------------------------------------ C11
Active(r) == kind[r] \in Kinds

\* the request has not returned and may still issue a call
Running(r) == Active(r) /\ pc[r] # "done" /\ calls[r] < MaxCalls

WellFormed(response) ==
  \/ response.status = "svg" /\ response.message = ""
  \/ response.status = "error" /\ response.message # "" /\ response.body = <<>>

C11_Returned ==
  \A r \in Reqs : pc[r] = "done" => WellFormed(resp[r])

C11_CanStep ==
  \A r \in Reqs : Running(r) => ENABLED RequestStep(r)

\* C11: a request to any card, whatever the configuration and whichever
\* upstream calls reject, returns one Response, the card or the error SVG with
\* its message: a request that has not returned can always take a step, every
\* way of finishing carries a Response, and the Response once returned is
\* never replaced.
C11_AlwaysOneSvgResponse ==
  /\ []C11_Returned
  /\ []C11_CanStep
  /\ [][\A r \in Reqs : pc[r] = "done" => (pc'[r] = "done" /\ resp'[r] = resp[r])]_vars

\* the stats card's last call rejected after the commit search had rejected too
C11_Witness ==
  \E r \in Reqs :
    /\ kind[r] = "stats" /\ pc[r] = "done"
    /\ hist[r].commitFailed /\ hist[r].followersFailed
    /\ resp[r] = ErrorResponse(UpstreamError)
    /\ calls[r] >= 4

\* ------------------------------------------------------------------ C12
\* C12: every Response a card handler returns, the card and the error SVG
\* alike, carries the Cache-Control header.
C12_EveryResponseCarriesCacheDirective ==
  \A r \in Reqs : pc[r] = "done" => resp[r].cache

\* ------------------------------------------------------------------ C13
Ranked(r) == pc[r] = "ranked"

LevelPos(level) == CHOOSE i \in 1..Len(LEVELS) : LEVELS[i] = level

\* q is p with exactly one of the six counts larger
RaisedOne(p, q) ==
  /\ q.all_commits = p.all_commits
  /\ \E f \in RankFields : q[f] > p[f] /\ \A g \in RankFields \ {f} : q[g] = p[g]

\* C13: raising one of totalCommits, prs, issues, reviews, stars, followers
\* with the others and all_commits unchanged never raises the percentile and
\* never moves the level to a later label of S, A+, A, A-, B+, B, B-, C+, C.
C13_RankIsMonotonic ==
  [][\A r \in Reqs :
       (Ranked(r) /\ Ranked(r)' /\ RaisedOne(stats[r], stats'[r])) =>
          /\ RatLeq(resp'[r].body.percentile, resp[r].body.percentile)
          /\ LevelPos(resp'[r].body.level) <= LevelPos(resp[r].body.level)]_vars

\* raising the stars from 0 to twice the median, all else 0, moved C to C+
C13_Witness ==
  \E r \in Reqs :
    /\ Ranked(r) /\ Len(hist[r].ranked) = 2
    /\ stats[r].stars = 2 * STARS_MEDIAN
    /\ \A f \in RankFields \ {"stars"} : stats[r][f] = 0
    /\ hist[r].ranked[1] = [level |-> "C", percentile |-> Whole(100)]
    /\ hist[r].ranked[2] = [level |-> "C+", percentile |-> Ratio(700, 9)]
    /\ resp[r].body = hist[r].ranked[2]

\* ------------------------------------------------------------------ C14
AllZero(params) == \A f \in RankFields : params[f] = 0

\* C14: with the six counts all 0, whatever all_commits is, calculateRank
\* returns percentile 100 and level "C".
C14_AllZeroIsWorst ==
  \A r \in Reqs :
    (Ranked(r) /\ AllZero(stats[r])) =>
       resp[r].body = [level |-> "C", percentile |-> Whole(100)]

C14_Witness ==
  \E r \in Reqs :
    /\ Ranked(r) /\ AllZero(stats[r]) /\ ~stats[r].all_commits
    /\ resp[r].body.percentile = Whole(100) /\ resp[r].body.level = LEVELS[9]

\* ------------------------------------------------------------------ C15
\* C15: the level is the label paired with the first threshold of
\* 1, 12.5, ..., 100 that the percentile does not exceed, "C" when it exceeds
\* them all; the percentile lies in [0, 100] and the level is one of the nine
\* labels.
C15_LevelIsFirstThreshold ==
  \A r \in Reqs :
    Ranked(r) =>
      LET p == resp[r].body.percentile
          level == resp[r].body.level
      IN  /\ p.num >= 0 /\ p.den > 0 /\ p.num <= 100 * p.den
          /\ \E i \in 1..9 : level = LEVELS[i]
          /\ \A i \in 1..9 :
               (p.num * THRESHOLDS[i].den <= THRESHOLDS[i].num * p.den
                  /\ \A j \in 1..(i - 1) :
                        p.num * THRESHOLDS[j].den > THRESHOLDS[j].num * p.den)
               => level = LEVELS[i]
          /\ (\A i \in 1..9 : p.num * THRESHOLDS[i].den > THRESHOLDS[i].num * p.den)
               => level = "C"

\* every count at its median: the percentile is exactly the threshold 50
C15_Witness ==
  \E r \in Reqs :
    /\ Ranked(r)
    /\ \A f \in RankFields : stats[r][f] = MedianOf(f, stats[r].all_commits)
    /\ resp[r].body = [level |-> "B+", percentile |-> Whole(50)]

\* ------------------------------------------------------------------ C16
\* fetchTotalReviewsAllTime has returned
ReviewsReturned(r) ==
  \/ pc[r] = "stats_followers"
  \/ kind[r] = "stats" /\ pc[r] = "done" /\ "user" \in hist[r].issued

\* C16: fetchTotalReviewsAllTime returns the number of reviews of all pull
\* requests of all repositories the lists carried: every repository's pull
\* requests are listed (also after a repository without pull requests), every
\* pull request's reviews are listed, and a pull request counts with all its
\* reviews, also when they are more than one listing page holds.
C16_ReviewsAreSummedInFull ==
  \A r \in Reqs :
    ReviewsReturned(r) =>
      /\ hist[r].visitedRepos = hist[r].served.repos
      /\ hist[r].reviewedPrs = hist[r].served.prs
      /\ stats[r].totalReviews = hist[r].served.reviews

\* ------------------------------------------------------------------ C17
\* the sub-windows requested so far: <<s_1, e_1>>, ..., <<s_k, e_k>>
SubWindows(r) == hist[r].windows

\* s_1 = from, s_i <= e_i, e_i - s_i <= 365 days, s_(i+1) = e_i + 1 second
C17_Chain(r) ==
  LET w == SubWindows(r) IN
  /\ w # <<>> => w[1][1] = 0
  /\ \A i \in 1..Len(w) : w[i][1] <= w[i][2] /\ w[i][2] - w[i][1] <= Window
  /\ \A i \in 1..(Len(w) - 1) : w[i + 1][1] = w[i][2] + Step

\* one request per sub-window, and no more sub-windows than the range can hold
C17_OneRequestEach(r) ==
  /\ calls[r] = Len(SubWindows(r))
  /\ streak[r].to > 0 => Len(SubWindows(r)) <= (streak[r].to \div (Window + Step)) + 1

\* the loop has ended and the card was built
C17_Covered(r) ==
  StreakCardDone(r) =>
    IF streak[r].to > 0
    THEN SubWindows(r) # <<>> /\ SubWindows(r)[Len(SubWindows(r))][2] = streak[r].to
    ELSE /\ SubWindows(r) = <<>> /\ calls[r] = 0
         /\ resp[r].body.days = <<>>
         /\ resp[r].body.totalContributions = 0
         /\ resp[r].body.currentStreak = 0
         /\ resp[r].body.longestStreak = 0

\* C17: with from < to the loop of fetchContributions ends after one request
\* per sub-window, the sub-windows start at from, are at most 365 days long,
\* each starts one second after the one before, and the last one ends at to;
\* with from >= to no request is sent and the card shows no days, total 0 and
\* both streaks 0.
C17_SubWindowsCoverFromTo ==
  \A r \in Reqs :
    kind[r] = "streak" => (C17_Chain(r) /\ C17_OneRequestEach(r) /\ C17_Covered(r))

\* ------------------------------------------------------------------ C18
\* everything request r owns
Local(r) == <<pc[r], calls[r], resp[r], lang[r], streak[r], stats[r], hist[r]>>

RECURSIVE WindowDaysOf(_, _)
WindowDaysOf(cal, windows) ==
  IF windows = <<>> THEN <<>>
  ELSE CalendarDays(cal, windows[1][1], windows[1][2]) \o WindowDaysOf(cal, Tail(windows))

\* the result is the one the request's own responses determine
C18_OwnResult(r) ==
  /\ (LangCard(r) /\ ~hist[r].nullUser) =>
        /\ TotalsMatchDelivered(r)
        /\ resp[r].body = TopLanguages(lang[r].totals)
        /\ hist[r].cursors = [i \in 1..gh.npages |-> i - 1]
  /\ StreakCardDone(r) =>
        /\ resp[r].body.days = SortByDate(WindowDaysOf(gh.cal, hist[r].windows))
        /\ resp[r].body.totalContributions
             = SumSeq([i \in 1..Len(hist[r].windows) |->
                         CalendarTotal(gh.cal, hist[r].windows[i][1], hist[r].windows[i][2])])
  /\ (kind[r] = "stats" /\ pc[r] = "done" /\ resp[r].status = "svg") =>
        /\ resp[r].body.totalStars = hist[r].served.stars
        /\ resp[r].body.totalForks = hist[r].served.forks
        /\ resp[r].body.activeReposLastYear = hist[r].served.active
        /\ resp[r].body.totalReviews <= hist[r].served.reviews
        /\ hist[r].cursors = [i \in 1..gh.npages |-> i - 1]

\* C18: with two requests in flight and their continuations interleaved in
\* any order, a step of one request changes nothing the other request owns
\* (totals, days and contribution total, counters, cursor, response), and
\* each request's result is the one its own API responses determine.
C18_RequestsAreIsolated ==
  /\ [](\A r \in Reqs : C18_OwnResult(r))
  /\ [][\A r, q \in Reqs :
         (r # q /\ Local(r)' # Local(r)) => Local(q)' = Local(q)]_vars

\* two language requests, both suspended with a first page accumulated
C18_Witness ==
  /\ \A r \in Reqs : kind[r] = "lang" /\ pc[r] = "lang_page" /\ lang[r].after = 1
  /\ TotalSize(lang["a"].totals) = 800
  /\ TotalSize(lang["b"].totals) = 600

\* ------------------------------------------------------------------ C19
OrZero(x) == IF x = Null THEN 0 ELSE x

\* C19: once the first page of fetchAllRepos has arrived, totalPRs and
\* totalIssues are that page's pull-request and issue totals (0 for one it
\* omits) and stay so whatever the later pages carry, while totalStars,
\* totalForks and activeReposLastYear are the sums over all pages served.
C19_FirstPageTotalsAreKept ==
  \A r \in Reqs :
    /\ hist[r].firstTotals # <<>> =>
         /\ stats[r].repos.totalPRs = OrZero(hist[r].firstTotals[1])
         /\ stats[r].repos.totalIssues = OrZero(hist[r].firstTotals[2])
         /\ RepoTotalsMatchServed(r)
    /\ (kind[r] = "stats" /\ pc[r] = "done" /\ resp[r].status = "svg") =>
         /\ resp[r].body.totalPRs = OrZero(hist[r].firstTotals[1])
         /\ resp[r].body.totalIssues = OrZero(hist[r].firstTotals[2])

\* three pages: the first carried 1 pull request and no issue total, a later
\* one carried other totals; stars were added from more than one page
C19_Witness ==
  \E r \in Reqs :
    /\ PastStatsLoop(r) /\ gh.npages = 3
    /\ hist[r].firstTotals = <<1, Null>>
    /\ hist[r].laterDiffer
    /\ stats[r].repos.totalPRs = 1 /\ stats[r].repos.totalIssues = 0
    /\ stats[r].repos.totalStars = 3

\* ------------------------------------------------------------------ C20
\* C20: for every day sequence 0 <= currentStreak <= longestStreak <= number
\* of days, and when currentStreak > 0 the indices of the current-streak range
\* satisfy 0 <= startIdx <= endIdx = number of days - 1 and
\* startIdx = endIdx - currentStreak + 1: formatStreakRange reads inside the
\* sequence and the card is returned.
C20_StreakIndicesInBounds ==
  \A r \in Reqs :
    (kind[r] = "streak" /\ pc[r] = "done") =>
      /\ resp[r].status = "svg"
      /\ LET b == resp[r].body
             n == Len(streak[r].contributions)
         IN  /\ Len(b.days) = n
             /\ 0 <= b.currentStreak
             /\ b.currentStreak <= b.longestStreak
             /\ b.longestStreak <= n
             /\ b.currentStreak > 0 =>
                  /\ 0 <= b.currStart /\ b.currStart <= b.currEnd
                  /\ b.currEnd = n - 1
                  /\ b.currStart = b.currEnd - b.currentStreak + 1
                  /\ b.currRange.present /\ ~b.currRange.thrown
                  /\ b.currRange.start = b.days[b.currStart + 1].date
                  /\ b.currRange.end = b.days[n].date

\* counts [0,1,1,0,2,1,3]: the current streak is days 4..6, as long as the longest
C20_Witness ==
  \E r \in Reqs :
    /\ StreakCardDone(r)
    /\ Counts(streak[r].contributions) = <<0, 1, 1, 0, 2, 1, 3>>
    /\ resp[r].body.currentStreak = 3 /\ resp[r].body.longestStreak = 3
    /\ resp[r].body.currStart = 4 /\ resp[r].body.currEnd = 6
    /\ resp[r].body.currRange = [present |-> TRUE, thrown |-> FALSE, start |-> 4, end |-> 6]

====
